---- MODULE Spec2Model ----
(***************************************************************************)
(* A model of app.py: the monitoring facade over the factory telemetry     *)
(* API.  The process loads the static catalog once, then serves requests   *)
(* one at a time; every handler is one action that draws the answers of    *)
(* the upstream service from bounded sets.                                  *)
(*                                                                         *)
(* JSON values are tagged records (t = "num", "str", "null", "list",       *)
(* "dict").  Numbers are integers; fill rates are kept in hundredths and   *)
(* forecast times in tenths, so that the arithmetic is exact.              *)
(* Texts that the chat controller searches are sequences of one-character  *)
(* strings, so that lower(), split() and substring tests are computed.     *)
(***************************************************************************)
EXTENDS Integers, Sequences, FiniteSets, TLC

VARIABLES pc, factory_static_data, startup, request, response, live_levels_map, route, dispatch_posts

vars == <<pc, factory_static_data, startup, request, response, live_levels_map, route, dispatch_posts>>

(* ------------------------------ bounds -------------------------------- *)

\* longest time-series or flat list the upstream sends
MaxItems == 2
\* largest small level the upstream reports (besides the two named levels)
MaxLevel == 3
\* most words in a chat message
MaxWords == 2

(* --------------------------- JSON values ------------------------------ *)

JNum(n) == [t |-> "num", n |-> n]
JStr(s) == [t |-> "str", s |-> s]
JNull == [t |-> "null"]
JList(q) == [t |-> "list", items |-> q]
JDict(f) == [t |-> "dict", f |-> f]

IsDict(v) == v.t = "dict"
IsList(v) == v.t = "list"
IsNone(v) == v.t = "null"
HasKey(d, k) == k \in DOMAIN d.f
\* dict.get(k): the value, or None
DictGet(d, k) == IF HasKey(d, k) THEN d.f[k] ELSE JNull

\* the strings float() parses, with their values
NumericStrings == ("2" :> 2)

\* float(v) raises for None, for containers and for a string that is no number
FloatRaises(v) ==
    CASE v.t = "num" -> FALSE
      [] v.t = "str" -> v.s \notin DOMAIN NumericStrings
      [] OTHER -> TRUE

FloatOf(v) == IF v.t = "num" THEN v ELSE JNum(NumericStrings[v.s])

\* Python truthiness of a JSON value
Truthy(v) ==
    CASE v.t = "num" -> v.n # 0
      [] v.t = "str" -> v.s # ""
      [] v.t = "list" -> v.items # <<>>
      [] v.t = "dict" -> DOMAIN v.f # {}
      [] OTHER -> FALSE

(* ------------------------------- texts -------------------------------- *)

\* the characters of the strings whose letters the program inspects
Chars ==
    ( "c1" :> <<"c", "1">>
   @@ "C2" :> <<"C", "2">>
   @@ "Ruby Pot" :> <<"R", "u", "b", "y", " ", "P", "o", "t">>
   @@ "Jade Urn" :> <<"J", "a", "d", "e", " ", "U", "r", "n">>
   @@ "" :> <<>>
   @@ " " :> <<" ">>
   @@ "JADE" :> <<"J", "A", "D", "E">>
   @@ "Forecast" :> <<"F", "o", "r", "e", "c", "a", "s", "t">>
   @@ "suspicious" :> <<"s", "u", "s", "p", "i", "c", "i", "o", "u", "s">>
   @@ "anomaly" :> <<"a", "n", "o", "m", "a", "l", "y">>
   @@ "ticket" :> <<"t", "i", "c", "k", "e", "t">>
   @@ "forecast" :> <<"f", "o", "r", "e", "c", "a", "s", "t">>
   @@ "full" :> <<"f", "u", "l", "l">>
   @@ "dispatch" :> <<"d", "i", "s", "p", "a", "t", "c", "h">>
   @@ "empty" :> <<"e", "m", "p", "t", "y">>
   @@ "optimize" :> <<"o", "p", "t", "i", "m", "i", "z", "e">>
   @@ "routes" :> <<"r", "o", "u", "t", "e", "s">>
   @@ "witches" :> <<"w", "i", "t", "c", "h", "e", "s">> )

UpperToLower ==
    ( "A" :> "a" @@ "B" :> "b" @@ "C" :> "c" @@ "D" :> "d" @@ "E" :> "e"
   @@ "F" :> "f" @@ "G" :> "g" @@ "H" :> "h" @@ "I" :> "i" @@ "J" :> "j"
   @@ "K" :> "k" @@ "L" :> "l" @@ "M" :> "m" @@ "N" :> "n" @@ "O" :> "o"
   @@ "P" :> "p" @@ "Q" :> "q" @@ "R" :> "r" @@ "S" :> "s" @@ "T" :> "t"
   @@ "U" :> "u" @@ "V" :> "v" @@ "W" :> "w" @@ "X" :> "x" @@ "Y" :> "y"
   @@ "Z" :> "z" )

\* str.lower()
Lower(s) == [i \in 1..Len(s) |-> IF s[i] \in DOMAIN UpperToLower THEN UpperToLower[s[i]] ELSE s[i]]

\* the Python test  sub in s
Contains(s, sub) == \E i \in 0..(Len(s) - Len(sub)) : SubSeq(s, i + 1, i + Len(sub)) = sub

\* s.split(" ")[0]: the characters before the first blank
FirstWord(s) ==
    LET blanks == {i \in 1..Len(s) : s[i] = " "}
    IN  IF blanks = {} THEN s
        ELSE SubSeq(s, 1, (CHOOSE i \in blanks : \A j \in blanks : i <= j) - 1)

(* ------------------------ the upstream service ------------------------ *)

\* One answer of the upstream service to a GET: the transport may fail, the
\* body may be no JSON, and a body that parses comes with an HTTP status.
Answer(status, body) == [fail |-> "none", status |-> status, body |-> body]
TransportError == [fail |-> "transport", status |-> 0, body |-> JNull]
UnparsableBody == [fail |-> "unparsable", status |-> 200, body |-> JNull]

\* requests.get(url).json() raises on a transport error and on a body that
\* is no JSON; the status of the answer is never looked at
JsonRaises(ans) == ans.fail # "none"

UpstreamFailed(ans) == ans.fail # "none" \/ ans.status # 200

ErrorBody == JDict("error" :> JStr("unavailable"))

\* the assets the upstream may list: id, display name, capacity
AssetPool ==
    { [id |-> "c1", name |-> "Ruby Pot", max_volume |-> 2],
      [id |-> "C2", name |-> "Jade Urn", max_volume |-> 100] }

\* the asset lists the upstream may send: every order of every subset
AssetLists ==
    {<<>>} \cup {<<a>> : a \in AssetPool}
           \cup {q \in {<<a, b>> : a \in AssetPool, b \in AssetPool} : q[1] # q[2]}

CauldronAnswers ==
    {Answer(200, JList(q)) : q \in AssetLists}
        \cup {TransportError, UnparsableBody, Answer(503, ErrorBody), Answer(503, JList(<<>>))}

\* the other three startup answers: each kind of failure occurs in one of them
NetworkAnswers ==
    {Answer(200, JList(<<JStr("e1"), JStr("e2")>>)), TransportError}
MarketAnswers ==
    {Answer(200, JDict("name" :> JStr("Bazaar"))), Answer(503, ErrorBody)}
CourierAnswers ==
    {Answer(200, JList(<<JStr("w1"), JStr("w2"), JStr("w3")>>)), UnparsableBody}

\* round(random.uniform(0.5, 2.0), 2), in hundredths: values the draw can give
FillRates == {150, 200}
\* round(random.uniform(10.0, 20.0), 2), in hundredths
DrainRates == {1500}

(* ----------------------------- startup -------------------------------- *)

None == [t |-> "none"]

\* The loop of lines 42-44 assigns into every element: it raises unless the
\* body is a list of objects (or an empty container).
RateLoopRaises(body) ==
    CASE body.t = "list" -> FALSE
      [] body.t = "dict" -> DOMAIN body.f # {}
      [] OTHER -> TRUE

\* load_static_factory_data: None when anything raised, else the catalog
load_static_factory_data(c, n, m, w, fill, drain) ==
    IF JsonRaises(c) \/ JsonRaises(n) \/ JsonRaises(m) \/ JsonRaises(w) \/ RateLoopRaises(c.body)
    THEN None
    ELSE [t |-> "data",
          cauldrons |-> IF c.body.t = "list"
                        THEN [i \in 1..Len(c.body.items) |->
                                [id |-> c.body.items[i].id,
                                 name |-> c.body.items[i].name,
                                 max_volume |-> c.body.items[i].max_volume,
                                 fill_rate_per_min |-> fill[i],
                                 drain_rate_per_min |-> drain[i]]]
                        ELSE <<>>,
          network |-> n.body,
          market |-> m.body,
          couriers |-> w.body]

(* ----------------------- the live level payloads ---------------------- *)

LiveIds == {"c1", "C2"}

\* the level values the upstream may report: numbers, a numeric string,
\* strings that are no number, and null
LevelVals ==
    {JNum(n) : n \in 0..MaxLevel} \cup {JStr("2"), JStr("abc"), JStr(""), JNull}

LevelsOf(m) == JDict("cauldron_levels" :> JDict(m))

\* line 117: a time-series record with its timestamp; "t1" is before "t2"
Stamped(ts, m) == JDict("timestamp" :> JStr(ts) @@ "cauldron_levels" :> JDict(m))

\* time-series records  {cauldron_levels: {id: level}}
TimeSeriesRecords ==
    {LevelsOf(<<>>), LevelsOf("C2" :> JNum(100)), LevelsOf("c1" :> JNum(2) @@ "C2" :> JNum(50))}
        \cup {LevelsOf("c1" :> v) : v \in LevelVals}

\* elements of a time-series list that are no time-series record
MalformedRecords == {JNull, JDict("cauldron_levels" :> JNull), JDict("timestamp" :> JStr("t0"))}

\* per-asset records with the aliased id and level fields
FlatItems ==
    {JDict("cauldronId" :> JStr("c1") @@ "currentVolume" :> v) : v \in LevelVals}
        \cup { JDict("cauldron_id" :> JStr("C2") @@ "level" :> JNum(100)),
               JDict("id" :> JStr("C2") @@ "volume" :> JNum(50)),
               JDict("cauldron" :> JDict("id" :> JStr("c1")) @@ "value" :> JNum(3)),
               JDict("id" :> JNull @@ "cauldron" :> JDict("id" :> JStr("C2")) @@ "current" :> JNum(2)),
               JDict("id" :> JStr("c1")),
               JDict("currentVolume" :> JNum(1)) }

SeqsUpTo(S, n) == UNION {[1..k -> S] : k \in 1..n}

\* the elements of the longer lists
SeriesElements ==
    {Stamped("t2", "c1" :> JNum(1)), Stamped("t1", "c1" :> JNum(3)), LevelsOf("C2" :> JNum(100))}
        \cup {JNull, JDict("cauldron_levels" :> JNull)}
FlatElements ==
    { JDict("cauldronId" :> JStr("c1") @@ "currentVolume" :> JNum(1)),
      JDict("cauldron" :> JDict("id" :> JStr("c1")) @@ "value" :> JNum(3)),
      JDict("id" :> JStr("C2") @@ "volume" :> JNum(50)),
      JDict("currentVolume" :> JNum(1)),
      JNum(7) }

\* every list of one element, and the lists of up to MaxItems of the elements above
TimeSeriesLists ==
    {JList(<<r>>) : r \in TimeSeriesRecords \cup MalformedRecords}
        \cup {JList(q) : q \in SeqsUpTo(SeriesElements, MaxItems)}
FlatLists ==
    {JList(<<r>>) : r \in FlatItems \cup {JNum(7)}}
        \cup {JList(q) : q \in SeqsUpTo(FlatElements, MaxItems)}

Wrappers == <<"data", "items", "results", "value">>

WrappedLists ==
    {JDict(Wrappers[i] :> l) :
        i \in 1..Len(Wrappers),
        l \in { JList(<<LevelsOf("c1" :> JNum(1))>>),
                JList(<<JDict("cauldronId" :> JStr("c1") @@ "currentVolume" :> JNum(1))>>),
                JList(<<>>) }}
        \cup {JDict("data" :> JNum(1)), JDict("value" :> JNum(3) @@ "id" :> JStr("c1"))}

\* payloads of none of the known shapes
UnknownPayloads ==
    {JNum(5), JStr("x"), JNull, JList(<<>>), JDict(<<>>), ErrorBody, LevelsOf("c1" :> JNum(1))}

LivePayloads == TimeSeriesLists \cup FlatLists \cup WrappedLists \cup FlatItems \cup UnknownPayloads

\* the answers of GET /api/Data
LiveAnswers ==
    {Answer(200, p) : p \in LivePayloads}
        \cup {TransportError, UnparsableBody, Answer(503, ErrorBody), Answer(503, JList(<<>>))}

(* ----------------------- get_cauldron_levels --------------------------- *)

EmptyMap == <<>>

\* lines 133-137 and 172-176: float(v) where possible, else v itself
Coerce(v) == IF FloatRaises(v) THEN v ELSE FloatOf(v)

CoerceAll(levels) == [k \in DOMAIN levels.f |-> Coerce(levels.f[k])]

IsTimeSeriesRecord(rec) == IsDict(rec) /\ IsDict(DictGet(rec, "cauldron_levels"))

\* a selection that takes the first time-series record of the list
Latest_First(items) ==
    LET ok == {i \in 1..Len(items) : IsTimeSeriesRecord(items[i])}
    IN  IF ok = {} THEN JDict(<<>>)
        ELSE items[CHOOSE i \in ok : \A j \in ok : i <= j].f["cauldron_levels"]

\* lines 125-131: the last element, from the end, that is a time-series record
Latest(items) ==
    LET ok == {i \in 1..Len(items) : IsTimeSeriesRecord(items[i])}
    IN  IF ok = {} THEN JDict(<<>>)
        ELSE items[CHOOSE i \in ok : \A j \in ok : j <= i].f["cauldron_levels"]

\* the value of the first of the keys that the item has, or None
FirstOf(item, keys) ==
    LET has == {i \in 1..Len(keys) : HasKey(item, keys[i])}
    IN  IF has = {} THEN JNull
        ELSE item.f[keys[CHOOSE i \in has : \A j \in has : i <= j]]

IdKeys == <<"cauldronId", "cauldron_id", "id">>
LevelKeys == <<"currentVolume", "current_volume", "volume", "level", "value", "current">>

\* lines 144-151
CauldronKey(item) ==
    LET direct == FirstOf(item, IdKeys)
    IN  IF IsNone(direct) /\ IsDict(DictGet(item, "cauldron"))
        THEN DictGet(item.f["cauldron"], "id")
        ELSE direct

\* lines 156-166
ItemLevel(item) ==
    LET level == FirstOf(item, LevelKeys)
    IN  IF IsNone(level) \/ FloatRaises(level) THEN JNull ELSE FloatOf(level)

\* lines 140-168: later items overwrite earlier ones
RECURSIVE FlatMap(_, _)
FlatMap(items, n) ==
    IF n = 0 THEN EmptyMap
    ELSE LET rest == FlatMap(items, n - 1)
             item == items[n]
         IN  IF ~IsDict(item) THEN rest
             ELSE IF IsNone(CauldronKey(item)) THEN rest
             ELSE (CauldronKey(item).s :> ItemLevel(item)) @@ rest

\* lines 97-114: the list to read, or the format error
Unwrap(data) ==
    IF ~IsDict(data) THEN [error |-> FALSE, list |-> data]
    ELSE LET found == {i \in 1..Len(Wrappers) : HasKey(data, Wrappers[i]) /\ IsList(data.f[Wrappers[i]])}
         IN  IF found # {}
             THEN [error |-> FALSE, list |-> data.f[Wrappers[CHOOSE i \in found : \A j \in found : i <= j]]]
             ELSE IF \E k \in {"cauldronId", "id", "cauldron_id", "currentVolume", "current_volume"} : HasKey(data, k)
             THEN [error |-> FALSE, list |-> JList(<<data>>)]
             ELSE [error |-> TRUE, list |-> JNull]

\* lines 119-176: the map of live levels
LevelsMap(list) ==
    IF IsList(list) /\ list.items # <<>>
    THEN IF IsTimeSeriesRecord(list.items[1])
         THEN CoerceAll(Latest(list.items))
         ELSE FlatMap(list.items, Len(list.items))
    ELSE IF IsDict(list) /\ IsDict(DictGet(list, "cauldron_levels"))
    THEN CoerceAll(list.f["cauldron_levels"])
    ELSE EmptyMap

\* dict.get on the map of live levels
MapGet(m, k) == IF k \in DOMAIN m THEN m[k] ELSE JNull

\* line 187: the comparison raises TypeError for a level that is no number
OverflowRaises(live_level) == Truthy(live_level) /\ live_level.t # "num"

Overflow(live_level, max_volume) == Truthy(live_level) /\ live_level.n >= max_volume

\* lines 178-192
Merge(cauldron, m) ==
    LET live_level == MapGet(m, cauldron.id)
    IN  [id |-> cauldron.id,
         name |-> cauldron.name,
         max_volume |-> cauldron.max_volume,
         fill_rate_per_min |-> cauldron.fill_rate_per_min,
         drain_rate_per_min |-> cauldron.drain_rate_per_min,
         current_level |-> IF IsNone(live_level) THEN JNum(0) ELSE live_level,
         anomaly |-> Overflow(live_level, cauldron.max_volume)]

ErrorOf(msg) == [t |-> "error", error |-> msg]

\* What get_cauldron_levels() gives its caller: a Response (kind "response"),
\* the pair (Response, 500) (kind "tuple"), or an exception (kind "raise").
get_cauldron_levels(data, ans) ==
    IF JsonRaises(ans)
    THEN [kind |-> "tuple", status |-> 500, body |-> ErrorOf("exception"), map |-> None]
    ELSE IF Unwrap(ans.body).error
    THEN [kind |-> "tuple", status |-> 500, body |-> ErrorOf("Unexpected /api/Data format"), map |-> None]
    ELSE LET m == LevelsMap(Unwrap(ans.body).list)
             cs == data.cauldrons
         IN  IF \E i \in 1..Len(cs) : OverflowRaises(MapGet(m, cs[i].id))
             THEN [kind |-> "raise", status |-> 500, body |-> JNull, map |-> [t |-> "map", m |-> m]]
             ELSE [kind |-> "response", status |-> 200,
                   body |-> JList([i \in 1..Len(cs) |-> Merge(cs[i], m)]),
                   map |-> [t |-> "map", m |-> m]]

\* what Flask sends for a view's result; an exception becomes a 500
HttpOf(r) ==
    [status |-> r.status, crashed |-> r.kind = "raise", body |-> r.body]

(* ------------------------ forecast_fill_times -------------------------- *)

\* round(x, 1) of x = num / den, in tenths when num is in tenths: the nearest
\* integer, a tie going to the even one
Round(num, den) ==
    LET q == num \div den
        r == num % den
    IN  IF 2 * r < den THEN q
        ELSE IF 2 * r > den THEN q + 1
        ELSE IF q % 2 = 0 THEN q ELSE q + 1

\* line 289 raises TypeError when the level is no number
ForecastRaises(cauldron) == cauldron.current_level.t # "num"

\* a forecast that also lists the asset that is exactly full
Forecastable_AtCapacity(cauldron) ==
    /\ cauldron.current_level.n <= cauldron.max_volume
    /\ cauldron.fill_rate_per_min > 0

\* lines 289-292
Forecastable(cauldron) ==
    /\ cauldron.current_level.n < cauldron.max_volume
    /\ cauldron.fill_rate_per_min > 0

\* lines 290-298; time_to_full_min is in tenths of a minute
ForecastOf(cauldron) ==
    [cauldron_id |-> cauldron.id,
     name |-> cauldron.name,
     time_to_full_min |->
        Round((cauldron.max_volume - cauldron.current_level.n) * 1000, cauldron.fill_rate_per_min)]

\* lines 284-298: the forecasts of the assets that can be forecast, in order
RECURSIVE Forecasts(_, _)
Forecasts(merged, n) ==
    IF n = 0 THEN <<>>
    ELSE IF Forecastable(merged[n])
         THEN Append(Forecasts(merged, n - 1), ForecastOf(merged[n]))
         ELSE Forecasts(merged, n - 1)

\* lines 266-300.  The call of line 276 gives a pair when the levels failed,
\* so line 277 raises AttributeError; the except of line 280 answers 200.
forecast_fill_times(data, ans) ==
    LET r == get_cauldron_levels(data, ans)
    IN  IF r.kind # "response"
        THEN [kind |-> "response", status |-> 200, body |-> ErrorOf("exception"), map |-> r.map]
        ELSE IF r.status # 200
        THEN [kind |-> "response", status |-> 200,
              body |-> ErrorOf("Could not get live levels for forecast."), map |-> r.map]
        ELSE IF \E i \in 1..Len(r.body.items) : ForecastRaises(r.body.items[i])
        THEN [kind |-> "raise", status |-> 500, body |-> JNull, map |-> r.map]
        ELSE [kind |-> "response", status |-> 200,
              body |-> JList(Forecasts(r.body.items, Len(r.body.items))), map |-> r.map]

(* --------------------------- cauldron_status --------------------------- *)

\* line 341: the forecast of the asset, or None
TimeToFull(forecasts, id) ==
    LET hit == {i \in 1..Len(forecasts) : forecasts[i].cauldron_id = id}
    IN  IF hit = {} THEN JNull
        ELSE JNum(forecasts[CHOOSE i \in hit : \A j \in hit : j <= i].time_to_full_min)

\* lines 333-346; percent_full is in tenths of a percent
StatusOf(c, forecasts) ==
    LET max_vol == IF c.max_volume # 0 THEN c.max_volume ELSE 1
        current == IF Truthy(c.current_level) THEN c.current_level.n ELSE 0
    IN  [id |-> c.id,
         name |-> c.name,
         max_volume |-> c.max_volume,
         fill_rate_per_min |-> c.fill_rate_per_min,
         drain_rate_per_min |-> c.drain_rate_per_min,
         current_level |-> c.current_level,
         anomaly |-> c.anomaly,
         percent_full |-> Round(current * 1000, max_vol),
         time_to_full_min |-> TimeToFull(forecasts, c.id)]

\* lines 304-348: two calls, each with its own upstream fetch
cauldron_status(data, ans1, ans2) ==
    LET r == get_cauldron_levels(data, ans1)
        f == forecast_fill_times(data, ans2)
    IN  IF r.kind # "response"
        THEN [kind |-> "tuple", status |-> 500, body |-> ErrorOf("Could not fetch live levels"), map |-> r.map]
        ELSE IF r.status # 200 THEN r
        ELSE IF f.kind = "response" /\ f.body.t = "error"
        THEN \* line 329 iterates the keys of the error object and calls .get on a string
             [kind |-> "raise", status |-> 500, body |-> JNull, map |-> r.map]
        ELSE LET forecasts == IF f.kind = "raise" THEN <<>> ELSE f.body.items
             IN  [kind |-> "response", status |-> 200,
                  body |-> JList([i \in 1..Len(r.body.items) |-> StatusOf(r.body.items[i], forecasts)]),
                  map |-> r.map]

\* the answers of GET /api/Data whose lists have at most one element
ShortLiveAnswers ==
    {a \in LiveAnswers : a.body.t = "list" => Len(a.body.items) <= 1}

\* the answers of GET /api/Data explored within a chat turn
ChatLiveAnswers ==
    { Answer(200, JList(<<LevelsOf("c1" :> JNum(1))>>)),
      Answer(200, JList(<<LevelsOf("c1" :> JNum(2) @@ "C2" :> JNum(50))>>)),
      Answer(200, JList(<<LevelsOf("c1" :> JStr(""))>>)),
      Answer(200, JList(<<>>)),
      TransportError }

\* the answers explored for a second fetch within one request
RefetchAnswers ==
    {Answer(200, JList(<<LevelsOf("c1" :> v)>>)) : v \in {JNum(0), JNum(1), JNum(2), JStr(""), JStr("abc")}}
        \cup { Answer(200, JList(<<JDict("id" :> JStr("C2") @@ "volume" :> JNum(50))>>)),
               Answer(200, JList(<<>>)), Answer(200, ErrorBody), TransportError, Answer(503, ErrorBody) }

(* -------------------------- check_discrepancies ------------------------ *)

Ticket(f) == JDict(f)

TicketAnswers ==
    { Answer(200, JList(<<>>)),
      Answer(200, JList(<<Ticket("id" :> JStr("T1") @@ "cauldronId" :> JStr("c1") @@ "amount" :> JNum(120))>>)),
      Answer(200, JList(<<Ticket("id" :> JStr("T2"))>>)),
      Answer(200, JList(<<Ticket("id" :> JStr("T3") @@ "amount" :> JStr("abc"))>>)),
      TransportError, UnparsableBody, Answer(503, ErrorBody), Answer(503, JList(<<>>)) }

\* lines 232-247 raise when the tickets are no list of objects with a numeric amount
TicketRaises(tickets) ==
    /\ Truthy(tickets)
    /\ \/ ~IsList(tickets)
       \/ ~IsDict(tickets.items[1])
       \/ (HasKey(tickets.items[1], "amount") /\ tickets.items[1].f["amount"].t # "num")

\* lines 234-253
Alerts(tickets) ==
    LET first_ticket == tickets.items[1]
        cauldron_id == IF HasKey(first_ticket, "cauldronId") THEN first_ticket.f["cauldronId"] ELSE JStr("cauldron_001")
        ticket_amount == IF HasKey(first_ticket, "amount") THEN first_ticket.f["amount"].n ELSE 100
    IN  << [cauldron_id |-> cauldron_id,
            message |-> [kind |-> "Suspicious", ticket |-> DictGet(first_ticket, "id"),
                         calculated |-> ticket_amount - 50, amount |-> ticket_amount]],
           [cauldron_id |-> JStr("cauldron_003"), message |-> [kind |-> "Unlogged drain"]] >>

\* lines 199-262: every path answers 200
check_discrepancies(ans) ==
    IF JsonRaises(ans) \/ TicketRaises(ans.body)
    THEN [kind |-> "response", status |-> 200,
          body |-> JList(<< [message |-> [kind |-> "Error connecting"]] >>)]
    ELSE IF ~Truthy(ans.body)
    THEN [kind |-> "response", status |-> 200,
          body |-> JList(<< [message |-> [kind |-> "All tickets reconciled"]] >>)]
    ELSE [kind |-> "response", status |-> 200, body |-> JList(Alerts(ans.body))]

(* ---------------------------- dispatch_courier ------------------------- *)

\* line 359: the first catalog asset with that id, or None
FindCauldron(data, cauldron_id) ==
    LET hit == {i \in 1..Len(data.cauldrons) :
                    cauldron_id.t = "str" /\ data.cauldrons[i].id = cauldron_id.s}
    IN  IF hit = {} THEN None
        ELSE [t |-> "found", c |-> data.cauldrons[CHOOSE i \in hit : \A j \in hit : i <= j]]

\* a dispatch without the check of line 361
dispatch_courier_Unchecked(data, body) ==
    [kind |-> "response", status |-> 200,
     body |-> [t |-> "dispatch", status |-> "success", message |-> "dispatched"]]

\* lines 356-369
dispatch_courier(data, body) ==
    LET cauldron_data == FindCauldron(data, DictGet(body, "cauldron_id"))
    IN  IF cauldron_data = None
        THEN [kind |-> "tuple", status |-> 400,
              body |-> [t |-> "dispatch", status |-> "error", message |-> "Invalid cauldron ID."]]
        ELSE [kind |-> "response", status |-> 200,
              body |-> [t |-> "dispatch", status |-> "success", message |-> cauldron_data.c.name]]

DispatchBodies ==
    {JDict("cauldron_id" :> JStr(i)) : i \in {"c1", "C2", "c2", "zz"}}
        \cup {JDict(<<>>), JDict("cauldron_id" :> JNull), JDict("cauldron_id" :> JNum(1))}

(* --------------------------- handle_agent_chat ------------------------- *)

\* the words a chat message is made of
Words == {"dispatch", "Forecast", "ticket", "optimize", "c1", "JADE"}

\* the words of q joined with blanks
RECURSIVE Join(_, _)
Join(q, n) ==
    IF n = 0 THEN <<>>
    ELSE IF n = 1 THEN Chars[q[1]]
    ELSE Join(q, n - 1) \o <<" ">> \o Chars[q[n]]

\* the messages of up to MaxWords different words
Messages ==
    {Join(q, Len(q)) :
        q \in {<<>>} \cup {w \in SeqsUpTo(Words, MaxWords) : \A i, j \in 1..Len(w) : i # j => w[i] # w[j]}}

ContainsAny(text, keywords) == \E k \in keywords : Contains(text, Chars[k])

\* a routing that tests the dispatch keywords before the forecast keywords
Route_DispatchFirst(user_message) ==
    LET text == Lower(user_message)
    IN  IF ContainsAny(text, {"suspicious", "anomaly", "ticket"}) THEN "discrepancy"
        ELSE IF ContainsAny(text, {"dispatch", "empty"}) THEN "dispatch"
        ELSE IF ContainsAny(text, {"forecast", "full"}) THEN "forecast"
        ELSE IF ContainsAny(text, {"optimize", "routes", "witches"}) THEN "optimize"
        ELSE "help"

\* lines 388, 408, 421, 444, 460: the first intent whose keywords the
\* lower-cased message contains
Route(user_message) ==
    LET text == Lower(user_message)
    IN  IF ContainsAny(text, {"suspicious", "anomaly", "ticket"}) THEN "discrepancy"
        ELSE IF ContainsAny(text, {"forecast", "full"}) THEN "forecast"
        ELSE IF ContainsAny(text, {"dispatch", "empty"}) THEN "dispatch"
        ELSE IF ContainsAny(text, {"optimize", "routes", "witches"}) THEN "optimize"
        ELSE "help"

\* line 424: the id as it is, or the lower-cased first word of the name
Names(cauldron, user_message) ==
    \/ Contains(Lower(user_message), Chars[cauldron.id])
    \/ Contains(Lower(user_message), Lower(FirstWord(Chars[cauldron.name])))

\* a resolution that falls back on the first catalog asset when none is named
CauldronToDispatch_Guess(data, user_message) ==
    LET hit == {i \in 1..Len(data.cauldrons) : Names(data.cauldrons[i], user_message)}
    IN  IF data.cauldrons = <<>> THEN None
        ELSE IF hit = {} THEN [t |-> "id", id |-> data.cauldrons[1].id]
        ELSE [t |-> "id", id |-> data.cauldrons[CHOOSE i \in hit : \A j \in hit : i <= j].id]

\* lines 422-428: the id of the first catalog asset the message names, if that id is not empty
CauldronToDispatch(data, user_message) ==
    LET hit == {i \in 1..Len(data.cauldrons) : Names(data.cauldrons[i], user_message)}
        first == data.cauldrons[CHOOSE i \in hit : \A j \in hit : i <= j]
    IN  IF hit = {} \/ first.id = "" THEN None ELSE [t |-> "id", id |-> first.id]

\* list.sort(key=time_to_full_min): a stable insertion sort
RECURSIVE SortByTime(_, _)
SortByTime(q, n) ==
    IF n = 0 THEN <<>>
    ELSE LET rest == SortByTime(q, n - 1)
             k == Cardinality({i \in 1..Len(rest) : rest[i].time_to_full_min <= q[n].time_to_full_min})
         IN  SubSeq(rest, 1, k) \o <<q[n]>> \o SubSeq(rest, k + 1, Len(rest))

Top5(q) == SubSeq(q, 1, IF Len(q) < 5 THEN Len(q) ELSE 5)

Plan(entry) == [entry |-> entry]

\* the ways a request asks for the completion service, and what the service does
NemotronCases ==
    { [use_nemotron |-> FALSE, nv_api_key |-> FALSE, has_client |-> TRUE, stream |-> "unused"],
      [use_nemotron |-> TRUE, nv_api_key |-> FALSE, has_client |-> FALSE, stream |-> "unused"],
      [use_nemotron |-> TRUE, nv_api_key |-> FALSE, has_client |-> TRUE, stream |-> "unused"],
      [use_nemotron |-> FALSE, nv_api_key |-> TRUE, has_client |-> TRUE, stream |-> "raise"],
      [use_nemotron |-> FALSE, nv_api_key |-> TRUE, has_client |-> TRUE, stream |-> " "],
      [use_nemotron |-> FALSE, nv_api_key |-> TRUE, has_client |-> TRUE, stream |-> "text"] }

\* lines 463-533: the plan entry it adds, and whether the text is replaced
NemotronNote(nemo) ==
    IF ~(nemo.use_nemotron \/ nemo.nv_api_key) THEN <<>>
    ELSE IF ~nemo.has_client THEN <<Plan("Note: Nemotron client not installed")>>
    ELSE IF ~nemo.nv_api_key THEN <<Plan("Note: NV API key not provided")>>
    ELSE IF nemo.stream = "raise" THEN <<Plan("Nemotron call failed")>>
    ELSE IF nemo.stream = " " THEN <<Plan("Warning: Nemotron streamed no text; keeping local response.")>>
    ELSE <<Plan("Tool Result: Response generated by Nemotron (stream).")>>

\* a replacement that keeps a streamed text of blanks only (no .strip())
NemotronReplaces_Unstripped(nemo) ==
    /\ nemo.nv_api_key
    /\ nemo.has_client
    /\ nemo.stream \in {"text", " "}

NemotronReplaces(nemo) ==
    /\ nemo.nv_api_key
    /\ nemo.has_client
    /\ nemo.stream = "text"

\* lines 389-406: the answer of the discrepancy intent
DiscrepancyChat(alerts) ==
    IF alerts[1].message.kind = "Suspicious"
    THEN [crashed |-> FALSE, posts |-> <<>>,
          plan |-> <<Plan("Plan: discrepancies"), Plan("Tool Result: Found a ticket mismatch.")>>,
          text |-> [kind |-> "I found a problem", lines |-> alerts]]
    ELSE [crashed |-> FALSE, posts |-> <<>>,
          plan |-> <<Plan("Plan: discrepancies")>>,
          text |-> [kind |-> "I found an alert", lines |-> alerts]]

\* lines 409-419: the answer of the forecast intent; line 416 calls .sort on
\* what forecast_fill_times sent, which raises when that is the error object
ForecastChat(f) ==
    IF f.kind = "raise" \/ f.body.t = "error"
    THEN [crashed |-> TRUE, posts |-> <<>>, plan |-> <<>>, text |-> [kind |-> "none"]]
    ELSE [crashed |-> FALSE, posts |-> <<>>,
          plan |-> <<Plan("Plan: forecasts"), Plan("Tool Result: forecasts")>>,
          text |-> [kind |-> "forecast",
                    lines |-> Top5(SortByTime(f.body.items, Len(f.body.items)))]]

\* lines 430-442: the loopback POST to the named asset and the answer made of its result
DispatchPost(target, d, loopback) ==
    IF loopback = "fails"
    THEN [crashed |-> TRUE, posts |-> <<target.id>>, plan |-> <<>>, text |-> [kind |-> "none"]]
    ELSE [crashed |-> FALSE, posts |-> <<target.id>>,
          plan |-> <<Plan("Plan: dispatch"), Plan(d.body.status)>>,
          text |-> [kind |-> "dispatch", message |-> d.body.message]]

\* lines 422-442: the answer of the dispatch intent
DispatchChat(data, target, loopback) ==
    IF target = None
    THEN [crashed |-> FALSE, posts |-> <<>>, plan |-> <<>>,
          text |-> [kind |-> "Which cauldron (e.g., cauldron_001) should I dispatch to?"]]
    ELSE DispatchPost(target, dispatch_courier(data, JDict("cauldron_id" :> JStr(target.id))), loopback)

\* lines 445-457: the answer of the optimize intent
OptimizeChat(data) ==
    [crashed |-> FALSE, posts |-> <<>>,
     plan |-> <<Plan("Plan: Bonus")>>,
     text |-> [kind |-> "optimize",
               market_name |-> IF HasKey(data.market, "name") THEN data.market.f["name"]
                               ELSE JStr("The Enchanted Market"),
               num_couriers |-> Len(data.couriers.items)]]

\* lines 387-461: the locally composed answer of the intent r.  env holds the
\* answers of the services the intent calls.
LocalChat(data, user_message, env, r) ==
    CASE r = "discrepancy" -> DiscrepancyChat(check_discrepancies(env.tickets).body.items)
      [] r = "forecast" -> ForecastChat(forecast_fill_times(data, env.live))
      [] r = "dispatch" -> DispatchChat(data, CauldronToDispatch(data, user_message), env.loopback)
      [] r = "optimize" -> OptimizeChat(data)
      [] OTHER -> [crashed |-> FALSE, posts |-> <<>>, plan |-> <<>>, text |-> [kind |-> "help"]]

\* lines 463-538: the completion service's part and the response
ChatResponse(local, nemo) ==
    IF local.crashed
    THEN [kind |-> "raise", status |-> 500, body |-> JNull, posts |-> local.posts]
    ELSE [kind |-> "response", status |-> 200,
          body |-> [t |-> "chat",
                    agent_response |-> IF NemotronReplaces(nemo) THEN [kind |-> "nemotron"] ELSE local.text,
                    agent_plan |-> local.plan \o NemotronNote(nemo)],
          posts |-> local.posts]

\* lines 376-538
handle_agent_chat(data, user_message, env, nemo) ==
    ChatResponse(LocalChat(data, user_message, env, Route(user_message)), nemo)

\* the answers of the services a chat turn may call; an intent reads only its own
NoAnswer == [fail |-> "unused", status |-> 0, body |-> JNull]

ChatEnvs(r) ==
    CASE r = "discrepancy" -> {[tickets |-> a, live |-> NoAnswer, loopback |-> "unused"] : a \in TicketAnswers}
      [] r = "forecast" -> {[tickets |-> NoAnswer, live |-> a, loopback |-> "unused"] : a \in ChatLiveAnswers}
      [] r = "dispatch" -> {[tickets |-> NoAnswer, live |-> NoAnswer, loopback |-> l] : l \in {"delivers", "fails"}}
      [] OTHER -> {[tickets |-> NoAnswer, live |-> NoAnswer, loopback |-> "unused"]}

NoRequest == [endpoint |-> "none"]
NoResponse == [status |-> 0, crashed |-> FALSE, body |-> JNull]

Init ==
    /\ pc = "boot"
    /\ factory_static_data = None
    /\ startup = <<>>
    /\ request = NoRequest
    /\ response = NoResponse
    /\ live_levels_map = None
    /\ route = "none"
    /\ dispatch_posts = <<>>

\* lines 64-66: the module loads the catalog and exits when that failed
Startup ==
    /\ pc = "boot"
    /\ \E c \in CauldronAnswers, n \in NetworkAnswers, m \in MarketAnswers, w \in CourierAnswers :
         LET len == IF c.body.t = "list" THEN Len(c.body.items) ELSE 0
         IN  \E fill \in [1..len -> FillRates], drain \in [1..len -> DrainRates] :
               /\ startup' = <<c, n, m, w>>
               /\ factory_static_data' = load_static_factory_data(c, n, m, w, fill, drain)
               /\ pc' = IF factory_static_data' = None THEN "exited" ELSE "idle"
    /\ UNCHANGED <<request, response, live_levels_map, route, dispatch_posts>>

\* the response has been sent: the request's data is gone
Respond ==
    /\ pc = "responded"
    /\ pc' = "idle"
    /\ request' = NoRequest
    /\ response' = NoResponse
    /\ live_levels_map' = None
    /\ route' = "none"
    /\ dispatch_posts' = <<>>
    /\ UNCHANGED <<factory_static_data, startup>>

\* GET /api/cauldron/levels
GetLevels ==
    /\ pc = "idle"
    /\ \E ans \in LiveAnswers :
         LET r == get_cauldron_levels(factory_static_data, ans)
         IN  /\ request' = [endpoint |-> "levels", live |-> ans]
             /\ response' = HttpOf(r)
             /\ live_levels_map' = r.map
    /\ pc' = "responded"
    /\ UNCHANGED <<factory_static_data, startup, route, dispatch_posts>>

\* GET /api/logistics/forecast
GetForecast ==
    /\ pc = "idle"
    /\ \E ans \in ShortLiveAnswers :
         LET r == forecast_fill_times(factory_static_data, ans)
         IN  /\ request' = [endpoint |-> "forecast", live |-> ans]
             /\ response' = HttpOf(r)
             /\ live_levels_map' = r.map
    /\ pc' = "responded"
    /\ UNCHANGED <<factory_static_data, startup, route, dispatch_posts>>

\* GET /api/cauldron/status
GetStatus ==
    /\ pc = "idle"
    /\ \E ans1 \in ShortLiveAnswers, ans2 \in RefetchAnswers :
         LET r == cauldron_status(factory_static_data, ans1, ans2)
         IN  /\ request' = [endpoint |-> "status", live |-> ans1, live2 |-> ans2]
             /\ response' = HttpOf(r)
             /\ live_levels_map' = r.map
    /\ pc' = "responded"
    /\ UNCHANGED <<factory_static_data, startup, route, dispatch_posts>>

\* GET /api/tickets/check_discrepancies
GetDiscrepancies ==
    /\ pc = "idle"
    /\ \E ans \in TicketAnswers :
         /\ request' = [endpoint |-> "discrepancies", tickets |-> ans]
         /\ response' = HttpOf(check_discrepancies(ans))
    /\ pc' = "responded"
    /\ UNCHANGED <<factory_static_data, startup, live_levels_map, route, dispatch_posts>>

\* POST /api/logistics/dispatch_courier
PostDispatch ==
    /\ pc = "idle"
    /\ \E body \in DispatchBodies :
         /\ request' = [endpoint |-> "dispatch", json |-> body]
         /\ response' = HttpOf(dispatch_courier(factory_static_data, body))
    /\ pc' = "responded"
    /\ UNCHANGED <<factory_static_data, startup, live_levels_map, route, dispatch_posts>>

\* POST /api/agent/chat
PostChat ==
    /\ pc = "idle"
    /\ \E user_message \in Messages, nemo \in NemotronCases :
         \E env \in ChatEnvs(Route(user_message)) :
           LET r == handle_agent_chat(factory_static_data, user_message, env, nemo)
           IN  /\ request' = [endpoint |-> "chat", message |-> user_message, env |-> env, nemo |-> nemo]
               /\ response' = HttpOf(r)
               /\ route' = Route(user_message)
               /\ dispatch_posts' = r.posts
    /\ pc' = "responded"
    /\ UNCHANGED <<factory_static_data, startup, live_levels_map>>

Next ==
    \/ PostChat
    \/ Startup
    \/ Respond
    \/ GetLevels
    \/ GetForecast
    \/ GetStatus
    \/ GetDiscrepancies
    \/ PostDispatch

Spec == Init /\ [][Next]_vars

(* ------------------------------ properties ---------------------------- *)

Served(endpoint) == pc = "responded" /\ request.endpoint = endpoint

CatalogIds == {factory_static_data.cauldrons[i].id : i \in 1..Len(factory_static_data.cauldrons)}

\* the shapes of section 4.2: a non-empty list, a dict that wraps a list
\* under a wrapper key, a dict that is one asset record
KnownShape(p) ==
    \/ IsList(p) /\ p.items # <<>>
    \/ IsDict(p) /\ \E k \in {"data", "items", "results", "value"} : HasKey(p, k) /\ IsList(p.f[k])
    \/ IsDict(p) /\ \E k \in {"cauldronId", "id", "cauldron_id", "currentVolume", "current_volume"} : HasKey(p, k)

\* C1: a live payload of none of the known shapes is answered with the
\* format error, status 500, never with a crash and never with 200.
C1_UnknownPayloadIsFormatError ==
    (Served("levels") /\ ~JsonRaises(request.live) /\ ~KnownShape(request.live.body))
        => (response.status = 500 /\ ~response.crashed)

\* the upstream answers a served request drew
UpstreamAnswers ==
    CASE request.endpoint \in {"levels", "forecast"} -> {request.live}
      [] request.endpoint = "status" -> {request.live, request.live2}
      [] request.endpoint = "discrepancies" -> {request.tickets}
      [] OTHER -> {}

\* C2: when the upstream call of the live-levels, forecast, status or
\* discrepancies endpoint fails (unreachable, unparsable, or a non-200
\* status), the endpoint answers with an error status.
C2_UpstreamFailureIsError ==
    (pc = "responded" /\ \E a \in UpstreamAnswers : UpstreamFailed(a))
        => response.status >= 400

\* the four known shapes of the data  {id: v}
TimeSeriesShape(id, v) == JList(<<LevelsOf(id :> v)>>)
FlatShape(id, v) == JList(<<JDict("cauldronId" :> JStr(id) @@ "currentVolume" :> v)>>)
WrappedShape(id, v) == JDict("data" :> FlatShape(id, v))
SingleShape(id, v) == JDict("cauldronId" :> JStr(id) @@ "currentVolume" :> v)

\* C3: the normalizer gives the same map of levels for the same data in
\* each of the four known shapes: whatever shape the payload has, the map
\* is the one its time-series shape gives.
C3_SameMapForEveryShape ==
    \A id \in LiveIds, v \in LevelVals :
        (/\ Served("levels")
         /\ ~JsonRaises(request.live)
         /\ request.live.body \in {TimeSeriesShape(id, v), FlatShape(id, v), WrappedShape(id, v), SingleShape(id, v)})
            => /\ live_levels_map # None
               /\ live_levels_map.m = LevelsMap(TimeSeriesShape(id, v))

\* an asset's live level is present: the map has a value for it that is not null
Present(id) == live_levels_map.m[id].t # "null"
HasLevel(id) == id \in DOMAIN live_levels_map.m /\ Present(id)

\* C4: for every catalog and every map of live levels the merger answers
\* with one record per catalog asset, in catalog order, and an asset with
\* no live level gets current_level 0 and anomaly false.
C4_OneRecordPerAsset ==
    (Served("levels") /\ live_levels_map # None)
        => LET cs == factory_static_data.cauldrons
           IN  /\ response.status = 200
               /\ IsList(response.body)
               /\ Len(response.body.items) = Len(cs)
               /\ \A i \in 1..Len(cs) :
                    /\ response.body.items[i].id = cs[i].id
                    /\ ~HasLevel(cs[i].id) =>
                          /\ response.body.items[i].current_level = JNum(0)
                          /\ response.body.items[i].anomaly = FALSE

\* C5: in the merged records the overflow flag is true exactly when the
\* asset's live level is present and at least the capacity, for every
\* level the map holds, coerced or passed through.
C5_OverflowIffAtCapacity ==
    (Served("levels") /\ live_levels_map # None)
        => LET cs == factory_static_data.cauldrons
           IN  /\ response.status = 200
               /\ IsList(response.body)
               /\ \A i \in 1..Len(response.body.items) :
                    response.body.items[i].anomaly
                        <=> /\ HasLevel(cs[i].id)
                            /\ live_levels_map.m[cs[i].id].t = "num"
                            /\ live_levels_map.m[cs[i].id].n >= cs[i].max_volume

\* the level the forecast reads: the live level, 0 when there is none
CurrentLevel(id) == IF HasLevel(id) THEN live_levels_map.m[id].n ELSE 0

\* t tenths is num / den rounded to the nearest
Nearest(t, num, den) == 2 * (t * den - num) <= den /\ 2 * (num - t * den) <= den

\* C6: the forecast lists an asset exactly when its level is below its
\* capacity and its fill rate is positive, with (capacity - level) / rate
\* rounded to one decimal; capacity 100, level 50, rate 2.0 gives 25.0.
C6_ForecastIffBelowCapacity ==
    (Served("forecast") /\ response.status = 200 /\ IsList(response.body))
        => LET cs == factory_static_data.cauldrons
               fs == response.body.items
           IN  /\ \A j \in 1..Len(fs) : fs[j].cauldron_id \in CatalogIds
               /\ \A i \in 1..Len(cs) :
                    LET listed == {j \in 1..Len(fs) : fs[j].cauldron_id = cs[i].id}
                        level == CurrentLevel(cs[i].id)
                    IN  IF level < cs[i].max_volume /\ cs[i].fill_rate_per_min > 0
                        THEN /\ Cardinality(listed) = 1
                             /\ \A j \in listed :
                                  /\ Nearest(fs[j].time_to_full_min,
                                             (cs[i].max_volume - level) * 1000, cs[i].fill_rate_per_min)
                                  /\ (cs[i].max_volume = 100 /\ level = 50 /\ cs[i].fill_rate_per_min = 200)
                                        => fs[j].time_to_full_min = 250
                        ELSE listed = {}

\* an asset at capacity is left out while another is forecast at 25.0
C6_Witness ==
    /\ Served("forecast")
    /\ response.status = 200
    /\ IsList(response.body)
    /\ \E i \in 1..Len(factory_static_data.cauldrons) :
         LET c == factory_static_data.cauldrons[i]
         IN  /\ HasLevel(c.id)
             /\ CurrentLevel(c.id) = c.max_volume
             /\ \A j \in 1..Len(response.body.items) : response.body.items[j].cauldron_id # c.id
    /\ \E j \in 1..Len(response.body.items) : response.body.items[j].time_to_full_min = 250

\* the id a dispatch request names is the id of a catalog asset
RequestedInCatalog ==
    /\ HasKey(request.json, "cauldron_id")
    /\ request.json.f["cauldron_id"].t = "str"
    /\ request.json.f["cauldron_id"].s \in CatalogIds

\* C7: dispatch_courier answers an id that is not in the catalog (or no
\* id) with status 400 and status field "error", an id of the catalog with
\* "success", and the request leaves the catalog as it was.
C7_DispatchChecksCatalog ==
    /\ [](Served("dispatch") =>
            IF RequestedInCatalog
            THEN response.status = 200 /\ response.body.status = "success"
            ELSE response.status = 400 /\ response.body.status = "error")
    /\ [][request'.endpoint = "dispatch" =>
            (factory_static_data' = factory_static_data /\ startup' = startup)]_vars

\* an unknown id was refused while the catalog has assets
C7_Witness ==
    /\ Served("dispatch")
    /\ ~RequestedInCatalog
    /\ HasKey(request.json, "cauldron_id")
    /\ CatalogIds # {}
    /\ response.status = 400
    /\ response.body.status = "error"

\* the lower-cased message contains one of the keywords
Has(keywords) == \E k \in keywords : Contains(Lower(request.message), Chars[k])

DiscrepancyWords == {"suspicious", "anomaly", "ticket"}
ForecastWords == {"forecast", "full"}
DispatchWords == {"dispatch", "empty"}
OptimizeWords == {"optimize", "routes", "witches"}

\* the first matching intent in the order discrepancy, forecast, dispatch, optimize
RoutedInPriorityOrder ==
    /\ route = "discrepancy" <=> Has(DiscrepancyWords)
    /\ route = "forecast" <=> (~Has(DiscrepancyWords) /\ Has(ForecastWords))
    /\ route = "dispatch" <=> (~Has(DiscrepancyWords) /\ ~Has(ForecastWords) /\ Has(DispatchWords))
    /\ route = "optimize" <=>
          (~Has(DiscrepancyWords) /\ ~Has(ForecastWords) /\ ~Has(DispatchWords) /\ Has(OptimizeWords))
    /\ route = "help" <=>
          ~(Has(DiscrepancyWords) \/ Has(ForecastWords) \/ Has(DispatchWords) \/ Has(OptimizeWords))

\* C8 as stated: the chat routes to the first matching intent in the order
\* discrepancy, forecast, dispatch, optimize, else help, and a message that
\* contains "forecast" always takes the forecast path.
C8_ForecastAlwaysWins ==
    Served("chat") =>
        /\ RoutedInPriorityOrder
        /\ Has({"forecast"}) => route = "forecast"

\* C8 as amended: the chat routes to the first matching intent in the order
\* discrepancy, forecast, dispatch, optimize, else help; a message that
\* contains "forecast" and no discrepancy keyword takes the forecast path,
\* also when it contains "dispatch".
C8_PriorityRouting ==
    Served("chat") =>
        /\ RoutedInPriorityOrder
        /\ (Has({"forecast"}) /\ ~Has(DiscrepancyWords)) => route = "forecast"

\* a message with "forecast" and "dispatch" took the forecast path
C8_Witness ==
    /\ Served("chat")
    /\ Has({"forecast"})
    /\ Has({"dispatch"})
    /\ route = "forecast"

\* C9: a request is served only after all four startup fetches succeeded;
\* any failed fetch (transport, unparsable body, non-success answer) stops
\* the process before it serves.
C9_ServesOnlyAfterFullLoad ==
    pc \in {"idle", "responded"} => \A i \in 1..4 : ~UpstreamFailed(startup[i])

\* the message names the asset: it contains its id or the first word of
\* its display name, letter case ignored
NamedInMessage(cauldron) ==
    \/ Contains(Lower(request.message), Lower(Chars[cauldron.id]))
    \/ Contains(Lower(request.message), Lower(FirstWord(Chars[cauldron.name])))

NemotronRequested(nemo) == nemo.use_nemotron \/ nemo.nv_api_key

\* the service is asked for and is not installed, has no key, raises, or
\* streams no text
NemotronUnavailable(nemo) ==
    /\ NemotronRequested(nemo)
    /\ \/ ~nemo.has_client
       \/ ~nemo.nv_api_key
       \/ nemo.stream \in {"raise", " "}

FailureNotes ==
    { Plan("Note: Nemotron client not installed"),
      Plan("Note: NV API key not provided"),
      Plan("Nemotron call failed"),
      Plan("Warning: Nemotron streamed no text; keeping local response.") }

TimeSeriesPayload ==
    /\ Served("levels")
    /\ ~JsonRaises(request.live)
    /\ IsList(request.live.body)
    /\ request.live.body.items # <<>>
    /\ IsTimeSeriesRecord(request.live.body.items[1])

\* the levels of an element of the list, each coerced to a number where
\* float() takes it; an element that is no time-series record has none
LevelsOfElement(rec) ==
    IF IsTimeSeriesRecord(rec) THEN CoerceAll(rec.f["cauldron_levels"]) ELSE EmptyMap

\* C12 as the specification states it: the map is taken from the last
\* element of the list, whatever that element is.
C12_MapOfLastElement ==
    TimeSeriesPayload =>
        LET items == request.live.body.items
        IN  /\ live_levels_map # None
            /\ live_levels_map.m = LevelsOfElement(items[Len(items)])

\* C12: for a list whose first element is a time-series record, the map is
\* the levels of the last element, in list order, that is a time-series
\* record; elements after it that are malformed are passed over, and no
\* timestamp is consulted.
C12_MapOfLastTimeSeriesRecord ==
    TimeSeriesPayload =>
        LET items == request.live.body.items
        IN  /\ live_levels_map # None
            /\ \E i \in 1..Len(items) :
                 /\ IsTimeSeriesRecord(items[i])
                 /\ \A j \in (i + 1)..Len(items) : ~IsTimeSeriesRecord(items[j])
                 /\ live_levels_map.m = LevelsOfElement(items[i])

\* a list of a time-series record followed by a null element was answered
\* with the levels of the record
C12_Witness ==
    /\ TimeSeriesPayload
    /\ request.live.body.items = <<Stamped("t2", "c1" :> JNum(1)), JNull>>
    /\ response.status = 200
    /\ live_levels_map # None
    /\ live_levels_map.m = ("c1" :> JNum(1))

\* C13: every record of a status answer is consistent with itself: its
\* time_to_full_min is null exactly when its own current_level is at or
\* above its max_volume or its fill rate is not positive, and is otherwise
\* (max_volume - current_level) / fill rate for that current_level, rounded
\* to one decimal, whatever the upstream sent to the handler's two fetches.
C13_StatusSelfConsistent ==
    (Served("status") /\ response.status = 200 /\ IsList(response.body)) =>
        \A i \in 1..Len(response.body.items) :
            LET c == response.body.items[i]
            IN  c.current_level.t = "num" =>
                    IF c.current_level.n >= c.max_volume \/ c.fill_rate_per_min <= 0
                    THEN c.time_to_full_min = JNull
                    ELSE /\ c.time_to_full_min.t = "num"
                         /\ Nearest(c.time_to_full_min.n,
                                    (c.max_volume - c.current_level.n) * 1000, c.fill_rate_per_min)

====
